---- MODULE Spec2Model ----
(***************************************************************************)
(* Model of the lithium-tracker price engine.                              *)
(*                                                                         *)
(* The repository holds three variants of the change engine:               *)
(*   - api/prices.js, lines 1-141 (and unnamed/part_000): buildResponse    *)
(*     over the literal HISTORY constant ("static" variant);               *)
(*   - api/prices.js, lines 143-305: buildResponse over the in-memory      *)
(*     priceHistory ("memory" variant);                                    *)
(*   - scripts/fetchPrices.js: applyChangesFromHistory ("script" variant). *)
(*                                                                         *)
(* JavaScript values are records [k, n, d]: k is the kind ("undefined",    *)
(* "null", "NaN", "Infinity", "num"); a number is the exact rational n/d   *)
(* in lowest terms with d > 0.  IEEE-754 rounding error is not modelled:   *)
(* arithmetic is exact, Math.round is floor(x + 1/2) as ECMAScript says.   *)
(* Dates (YYYY-MM-DD strings) are day numbers.  A string that the code      *)
(* takes apart (a contract code) is the sequence of its characters.         *)
(*                                                                         *)
(* today is the date of the server or script, clock the local date of the  *)
(* browser (year and zero-based month, as Date reports them); served is    *)
(* the log of the computations made so far, kept for the properties that   *)
(* compare two of them.                                                    *)
(*                                                                         *)
(* The React component App (src/App.jsx) is the state priceData, loading,  *)
(* refreshing and lastUpdated, with mounted (has the effect run), fetches  *)
(* (who started each call of loadPrices, in the order of the calls),       *)
(* inflight (the calls whose fetch has not settled), timers (pending       *)
(* setTimeout callbacks of handleRefresh), elapsed (the time of the        *)
(* browser, in periods of the refresh interval), settled (the calls that   *)
(* completed, in the order of completion, each with whether its request    *)
(* failed) and completed (the outcome, time and promise of the call that   *)
(* completed last).                                                        *)
(***************************************************************************)
EXTENDS Integers, Sequences, FiniteSets, TLC

VARIABLES prices, history, today, clock, call, result, served,
          priceData, loading, refreshing, lastUpdated,
          mounted, fetches, inflight, timers, elapsed, settled, completed

appVars == <<priceData, loading, refreshing, lastUpdated,
             mounted, fetches, inflight, timers, elapsed, settled, completed>>

vars == <<prices, history, today, clock, call, result, served, appVars>>

-----------------------------------------------------------------------------
(* JavaScript values and arithmetic *)

Undefined == [k |-> "undefined", n |-> 0, d |-> 1]
Null == [k |-> "null", n |-> 0, d |-> 1]
NaN == [k |-> "NaN", n |-> 0, d |-> 1]

\* a string that spells no number, such as 'N/A'
NonNumeric == [k |-> "str", n |-> 0, d |-> 1]

Abs(i) == IF i < 0 THEN -i ELSE i

RECURSIVE Gcd(_, _)
Gcd(a, b) == IF b = 0 THEN a ELSE Gcd(b, a % b)

\* the number n/d (d # 0), in lowest terms with a positive denominator
Num(n, d) ==
    LET g == Gcd(Abs(n), Abs(d))
        s == IF d < 0 THEN -1 ELSE 1
    IN  [k |-> "num", n |-> (s * n) \div g, d |-> (s * d) \div g]

JSInt(i) == [k |-> "num", n |-> i, d |-> 1]

\* +Infinity / -Infinity: n carries the sign
Infinity(sign) == [k |-> "Infinity", n |-> sign, d |-> 1]

Sign(i) == IF i < 0 THEN -1 ELSE IF i > 0 THEN 1 ELSE 0

\* ToNumber: undefined -> NaN, null -> +0, a non-numeric string -> NaN
ToNumber(v) ==
    CASE v.k = "undefined" -> NaN
      [] v.k = "str" -> NaN
      [] v.k = "null" -> JSInt(0)
      [] OTHER -> v

\* ToBoolean of a primitive: undefined, null, NaN and 0 are falsy, a
\* string that is not empty is truthy
Truthy(v) == \/ v.k = "Infinity"
             \/ v.k = "str"
             \/ v.k = "num" /\ v.n # 0

\* a === b on primitives (NaN is not equal to itself)
StrictEq(a, b) == a.k # "NaN" /\ a = b

IsNull(v) == v.k = "null"
IsUndefined(v) == v.k = "undefined"
IsNumber(v) == v.k = "num"

\* a - b
JSSub(a, b) ==
    LET x == ToNumber(a)
        y == ToNumber(b)
    IN  CASE x.k = "NaN" \/ y.k = "NaN" -> NaN
          [] x.k = "Infinity" /\ y.k = "Infinity" ->
                IF x.n = y.n THEN NaN ELSE x
          [] x.k = "Infinity" -> x
          [] y.k = "Infinity" -> Infinity(-y.n)
          [] OTHER -> Num(x.n * y.d - y.n * x.d, x.d * y.d)

\* a * b
JSMul(a, b) ==
    LET x == ToNumber(a)
        y == ToNumber(b)
    IN  CASE x.k = "NaN" \/ y.k = "NaN" -> NaN
          [] x.k = "Infinity" \/ y.k = "Infinity" ->
                IF x.n = 0 \/ y.n = 0 THEN NaN
                ELSE Infinity(Sign(x.n) * Sign(y.n))
          [] OTHER -> Num(x.n * y.n, x.d * y.d)

\* a / b
JSDiv(a, b) ==
    LET x == ToNumber(a)
        y == ToNumber(b)
    IN  CASE x.k = "NaN" \/ y.k = "NaN" -> NaN
          [] x.k = "Infinity" /\ y.k = "Infinity" -> NaN
          [] x.k = "Infinity" ->
                Infinity(x.n * (IF y.n < 0 THEN -1 ELSE 1))
          [] y.k = "Infinity" -> JSInt(0)
          [] y.n = 0 -> IF x.n = 0 THEN NaN ELSE Infinity(Sign(x.n))
          [] OTHER -> Num(x.n * y.d, x.d * y.n)

\* a + b on numbers
JSAdd(a, b) == JSSub(a, JSSub(JSInt(0), b))

\* a < b: false when either operand is NaN
JSLess(a, b) ==
    LET x == ToNumber(a)
        y == ToNumber(b)
    IN  CASE x.k = "NaN" \/ y.k = "NaN" -> FALSE
          [] x.k = "Infinity" /\ y.k = "Infinity" -> x.n < y.n
          [] x.k = "Infinity" -> x.n < 0
          [] y.k = "Infinity" -> y.n > 0
          [] OTHER -> x.n * y.d < y.n * x.d

DigitChars == <<"0", "1", "2", "3", "4", "5", "6", "7", "8", "9">>

IsDigit(ch) == \E i \in DOMAIN DigitChars : DigitChars[i] = ch

DigitValue(ch) == (CHOOSE i \in DOMAIN DigitChars : DigitChars[i] = ch) - 1

\* the value of the leading decimal digits of a character sequence, given
\* the value acc of the digits read so far
RECURSIVE ParseDigits(_, _)
ParseDigits(chars, acc) ==
    IF chars = <<>> \/ ~IsDigit(Head(chars)) THEN acc
    ELSE ParseDigits(Tail(chars), 10 * acc + DigitValue(Head(chars)))

\* parseInt(s) for a string without leading blanks or sign: the number its
\* leading digits spell, NaN when it does not start with a digit
ParseInt(chars) ==
    IF chars = <<>> \/ ~IsDigit(Head(chars)) THEN NaN
    ELSE JSInt(ParseDigits(chars, 0))

\* s.substring(from, to) for 0 <= from <= to
Substring(chars, from, to) ==
    SubSeq(chars, from + 1, IF to < Len(chars) THEN to ELSE Len(chars))

\* Math.round(v): floor(v + 1/2), halves go toward +Infinity
MathRound(v) ==
    LET x == ToNumber(v)
    IN  IF x.k = "num" THEN JSInt((2 * x.n + x.d) \div (2 * x.d)) ELSE x

\* Math.round(v * 100) / 100
Round2(v) == JSDiv(MathRound(JSMul(v, JSInt(100))), JSInt(100))

\* mutant: the rate is published to 2 decimals
Round4_TwoDecimals(v) == JSDiv(MathRound(JSMul(v, JSInt(100))), JSInt(100))

\* Math.round(v * 10000) / 10000
Round4(v) == JSDiv(MathRound(JSMul(v, JSInt(10000))), JSInt(10000))


-----------------------------------------------------------------------------
(* Objects.  An object is a record whose k is "obj"; an array is         *)
(* [k |-> "array", items |-> <<...>>]; an absent property is Undefined.  *)

IsNullish(o) == o.k \in {"undefined", "null"}

\* o?.price
OptPrice(o) == IF IsNullish(o) THEN Undefined ELSE o.price

\* (o || []) for an array-or-absent o
OrEmpty(o) == IF o.k = "array" THEN o.items ELSE <<>>

\* new Map(entries.map(f => [f.contract, f.priceCNY])): a later entry with
\* the same key overwrites an earlier one
\* mutant: an earlier entry with the same key is kept
RECURSIVE NewMap_FirstWins(_)
NewMap_FirstWins(entries) ==
    IF entries = <<>> THEN [c \in {} |-> Undefined]
    ELSE LET m == NewMap_FirstWins(SubSeq(entries, 1, Len(entries) - 1))
             e == entries[Len(entries)]
         IN  [c \in DOMAIN m \cup {e.contract} |->
                 IF c \in DOMAIN m THEN m[c] ELSE e.priceCNY]

RECURSIVE NewMap(_)
NewMap(entries) ==
    IF entries = <<>> THEN [c \in {} |-> Undefined]
    ELSE LET m == NewMap(SubSeq(entries, 1, Len(entries) - 1))
             e == entries[Len(entries)]
         IN  [c \in DOMAIN m \cup {e.contract} |->
                 IF c = e.contract THEN e.priceCNY ELSE m[c]]

\* map.get(key)
MapGet(m, key) == IF key \in DOMAIN m THEN m[key] ELSE Undefined

\* new Date().toISOString(): an instant, of which the day is modelled
Instant(day) == [k |-> "instant", day |-> day]

Return(v) == [k |-> "return", value |-> v]
Throw(e) == [k |-> "throw", error |-> e]
Pending == [k |-> "pending"]

-----------------------------------------------------------------------------
(* api/prices.js: helpers shared by both buildResponse variants *)

\* api/prices.js:73 and :195
FallbackRate == Num(698, 100)

\* mutant: only the USD price is tested before dividing
calculateConversionRate_PriceOnly(carbonate) ==
    IF ~Truthy(carbonate.price)
    THEN FallbackRate
    ELSE JSDiv(carbonate.priceCNY, carbonate.price)

calculateConversionRate(carbonate) ==
    IF ~Truthy(carbonate.price) \/ ~Truthy(carbonate.priceCNY)
    THEN FallbackRate
    ELSE JSDiv(carbonate.priceCNY, carbonate.price)

\* mutant: the difference is taken relative to the current value
calculateChange_OverCurrent(current, previous) ==
    IF ~Truthy(previous) \/ StrictEq(previous, JSInt(0))
    THEN Null
    ELSE JSMul(JSDiv(JSSub(current, previous), current), JSInt(100))

calculateChange(current, previous) ==
    IF ~Truthy(previous) \/ StrictEq(previous, JSInt(0))
    THEN Null
    ELSE JSMul(JSDiv(JSSub(current, previous), previous), JSInt(100))

\* mutant: an absolute change of 0 is taken for a missing one
calculatePercentFromChange_ZeroMissing(currentPrice, absoluteChange) ==
    IF ~Truthy(absoluteChange) \/ StrictEq(absoluteChange, JSInt(0))
    THEN Null
    ELSE LET previousPrice == JSSub(currentPrice, absoluteChange)
         IN  IF StrictEq(previousPrice, JSInt(0))
             THEN JSInt(0)
             ELSE JSMul(JSDiv(absoluteChange, previousPrice), JSInt(100))

calculatePercentFromChange(currentPrice, absoluteChange) ==
    IF ~Truthy(absoluteChange) \/ StrictEq(absoluteChange, JSInt(0))
    THEN JSInt(0)
    ELSE LET previousPrice == JSSub(currentPrice, absoluteChange)
         IN  IF StrictEq(previousPrice, JSInt(0))
             THEN JSInt(0)
             ELSE JSMul(JSDiv(absoluteChange, previousPrice), JSInt(100))

\* history?.date || null  (a date string is never falsy)
historyDate(h) == IF IsNullish(h) THEN Null ELSE [k |-> "date", day |-> h.date]

\* changePercent !== null ? Math.round(changePercent * 100) / 100 : null
RoundUnlessNull(v) == IF ~IsNull(v) THEN Round2(v) ELSE Null


\* historyFuturesMap = new Map((history?.futures || []).map(...))
historyFuturesMap(h) ==
    NewMap(OrEmpty(IF IsNullish(h) THEN Undefined ELSE h.futures))

-----------------------------------------------------------------------------
(* api/prices.js:82-130 (and unnamed/part_000:94-142): buildResponse over  *)
(* the literal HISTORY; history.carbonate on a null history is a TypeError *)

carbChangeVal(p, h) ==
    IF Truthy(OptPrice(h.carbonate))
    THEN JSSub(p.carbonate.price, h.carbonate.price)
    ELSE p.carbonate.changeUSD

carbChangePct(p, h) ==
    IF Truthy(OptPrice(h.carbonate))
    THEN calculateChange(p.carbonate.price, h.carbonate.price)
    ELSE p.carbonate.changePercent

spodChangeVal(p, h) ==
    IF Truthy(OptPrice(h.spodumene))
    THEN JSSub(p.spodumene.price, h.spodumene.price)
    ELSE p.spodumene.changeUSD

spodChangePct(p, h) ==
    IF Truthy(OptPrice(h.spodumene))
    THEN calculateChange(p.spodumene.price, h.spodumene.price)
    ELSE p.spodumene.changePercent

futureUSDStatic(f, conversionRate, hmap) ==
    LET priceUSD == MathRound(JSDiv(f.priceCNY, conversionRate))
        historyPriceCNY == MapGet(hmap, f.contract)
        changePercent == IF Truthy(historyPriceCNY)
                         THEN calculateChange(f.priceCNY, historyPriceCNY)
                         ELSE Null
    IN  [contract |-> f.contract, month |-> f.month, priceCNY |-> f.priceCNY,
         price |-> priceUSD, change |-> RoundUnlessNull(changePercent)]

buildResponseStatic(p, h, now) ==
    IF IsNullish(h) THEN Throw("TypeError")
    ELSE
    LET conversionRate == calculateConversionRate(p.carbonate)
        hmap == historyFuturesMap(h)
    IN  Return(
        [carbonate |-> [p.carbonate EXCEPT
                          !.change = Round2(carbChangeVal(p, h)),
                          !.changePercent = Round2(carbChangePct(p, h))],
         spodumene |-> [p.spodumene EXCEPT
                          !.change = Round2(spodChangeVal(p, h)),
                          !.changePercent = Round2(spodChangePct(p, h))],
         futures |-> [i \in DOMAIN p.futures |->
                         futureUSDStatic(p.futures[i], conversionRate, hmap)],
         conversionRate |-> Round4(conversionRate),
         lastUpdated |-> now,
         historyDate |-> historyDate(h)])

-----------------------------------------------------------------------------
(* api/prices.js:212-283: buildResponse over the in-memory priceHistory *)

\* mutant: the date of the history is not compared with today
hasValidHistory_AnyDate(h, now) == ~IsNullish(h)

\* history && history.date !== today
hasValidHistory(h, now) == ~IsNullish(h) /\ h.date # now

\* mutant: the history delta is preferred to the scraped changeCNY
carbonateChange_HistoryFirst(p, h, now) ==
    IF hasValidHistory(h, now) /\ Truthy(OptPrice(h.carbonate))
    THEN JSSub(p.carbonate.price, h.carbonate.price)
    ELSE IF ~IsUndefined(p.carbonate.changeCNY)
    THEN JSDiv(p.carbonate.changeCNY, calculateConversionRate(p.carbonate))
    ELSE Null

carbonateChange(p, h, now) ==
    IF ~IsUndefined(p.carbonate.changeCNY)
    THEN JSDiv(p.carbonate.changeCNY, calculateConversionRate(p.carbonate))
    ELSE IF hasValidHistory(h, now) /\ Truthy(OptPrice(h.carbonate))
    THEN JSSub(p.carbonate.price, h.carbonate.price)
    ELSE Null

carbonateChangePercent(p, h, now) ==
    IF ~IsUndefined(p.carbonate.changeCNY)
    THEN calculatePercentFromChange(p.carbonate.priceCNY, p.carbonate.changeCNY)
    ELSE IF hasValidHistory(h, now) /\ Truthy(OptPrice(h.carbonate))
    THEN calculateChange(p.carbonate.price, h.carbonate.price)
    ELSE Null

\* mutant: one precedence decision for both instruments: a scraped carbonate
\* change keeps spodumene away from the history as well
spodumeneChange_SharedPrecedence(p, h, now) ==
    IF ~IsUndefined(p.spodumene.changeUSD) \/ ~IsUndefined(p.carbonate.changeCNY)
    THEN p.spodumene.changeUSD
    ELSE IF hasValidHistory(h, now) /\ Truthy(OptPrice(h.spodumene))
    THEN JSSub(p.spodumene.price, h.spodumene.price)
    ELSE Null

spodumeneChange(p, h, now) ==
    IF ~IsUndefined(p.spodumene.changeUSD)
    THEN p.spodumene.changeUSD
    ELSE IF hasValidHistory(h, now) /\ Truthy(OptPrice(h.spodumene))
    THEN JSSub(p.spodumene.price, h.spodumene.price)
    ELSE Null

spodumeneChangePercent(p, h, now) ==
    IF ~IsUndefined(p.spodumene.changeUSD)
    THEN calculatePercentFromChange(p.spodumene.price, p.spodumene.changeUSD)
    ELSE IF hasValidHistory(h, now) /\ Truthy(OptPrice(h.spodumene))
    THEN calculateChange(p.spodumene.price, h.spodumene.price)
    ELSE Null

\* mutant: the USD price is computed with the rate as published (4 decimals)
futureUSDMemory_PublishedRate(f, conversionRate, hmap, valid) ==
    LET priceUSD == MathRound(JSDiv(f.priceCNY, Round4(conversionRate)))
        historyPriceCNY == MapGet(hmap, f.contract)
        changePercent == IF valid /\ Truthy(historyPriceCNY)
                         THEN calculateChange(f.priceCNY, historyPriceCNY)
                         ELSE Null
    IN  [contract |-> f.contract, month |-> f.month, priceCNY |-> f.priceCNY,
         price |-> priceUSD, change |-> RoundUnlessNull(changePercent)]

\* mutant: a contract the history does not hold is compared with the
\* history price of some contract it does hold
futureUSDMemory_AnyContract(f, conversionRate, hmap, valid) ==
    LET priceUSD == MathRound(JSDiv(f.priceCNY, conversionRate))
        historyPriceCNY ==
            IF f.contract \in DOMAIN hmap \/ DOMAIN hmap = {}
            THEN MapGet(hmap, f.contract)
            ELSE hmap[CHOOSE c \in DOMAIN hmap : TRUE]
        changePercent == IF valid /\ Truthy(historyPriceCNY)
                         THEN calculateChange(f.priceCNY, historyPriceCNY)
                         ELSE Null
    IN  [contract |-> f.contract, month |-> f.month, priceCNY |-> f.priceCNY,
         price |-> priceUSD, change |-> RoundUnlessNull(changePercent)]

\* mutant: the futures are compared with a history of today as well
futureUSDMemory_IgnoresStale(f, conversionRate, hmap, valid) ==
    LET priceUSD == MathRound(JSDiv(f.priceCNY, conversionRate))
        historyPriceCNY == MapGet(hmap, f.contract)
        changePercent == IF Truthy(historyPriceCNY)
                         THEN calculateChange(f.priceCNY, historyPriceCNY)
                         ELSE Null
    IN  [contract |-> f.contract, month |-> f.month, priceCNY |-> f.priceCNY,
         price |-> priceUSD, change |-> RoundUnlessNull(changePercent)]

futureUSDMemory(f, conversionRate, hmap, valid) ==
    LET priceUSD == MathRound(JSDiv(f.priceCNY, conversionRate))
        historyPriceCNY == MapGet(hmap, f.contract)
        changePercent == IF valid /\ Truthy(historyPriceCNY)
                         THEN calculateChange(f.priceCNY, historyPriceCNY)
                         ELSE Null
    IN  [contract |-> f.contract, month |-> f.month, priceCNY |-> f.priceCNY,
         price |-> priceUSD, change |-> RoundUnlessNull(changePercent)]

\* mutant: the futures are joined with the history (a contract the history
\* does not hold is dropped from the curve)
buildResponseMemory_JoinHistory(p, h, now) ==
    LET conversionRate == calculateConversionRate(p.carbonate)
        hmap == historyFuturesMap(h)
        valid == hasValidHistory(h, now)
        InHistory(f) == f.contract \in DOMAIN hmap
        joined == SelectSeq(p.futures, InHistory)
    IN  Return(
        [carbonate |-> [p.carbonate EXCEPT
                          !.change = RoundUnlessNull(carbonateChange(p, h, now)),
                          !.changePercent =
                              RoundUnlessNull(carbonateChangePercent(p, h, now))],
         spodumene |-> [p.spodumene EXCEPT
                          !.change = RoundUnlessNull(spodumeneChange(p, h, now)),
                          !.changePercent =
                              RoundUnlessNull(spodumeneChangePercent(p, h, now))],
         futures |-> [i \in DOMAIN joined |->
                         futureUSDMemory(joined[i], conversionRate, hmap, valid)],
         conversionRate |-> Round4(conversionRate),
         lastUpdated |-> now,
         historyDate |-> historyDate(h)])

buildResponseMemory(p, h, now) ==
    LET conversionRate == calculateConversionRate(p.carbonate)
        hmap == historyFuturesMap(h)
        valid == hasValidHistory(h, now)
    IN  Return(
        [carbonate |-> [p.carbonate EXCEPT
                          !.change = RoundUnlessNull(carbonateChange(p, h, now)),
                          !.changePercent =
                              RoundUnlessNull(carbonateChangePercent(p, h, now))],
         spodumene |-> [p.spodumene EXCEPT
                          !.change = RoundUnlessNull(spodumeneChange(p, h, now)),
                          !.changePercent =
                              RoundUnlessNull(spodumeneChangePercent(p, h, now))],
         futures |-> [i \in DOMAIN p.futures |->
                         futureUSDMemory(p.futures[i], conversionRate, hmap, valid)],
         conversionRate |-> Round4(conversionRate),
         lastUpdated |-> now,
         historyDate |-> historyDate(h)])


-----------------------------------------------------------------------------
(* scripts/fetchPrices.js *)

calculateChangeScript(currentPrice, historyPrice) ==
    IF \/ ~Truthy(historyPrice)
       \/ StrictEq(historyPrice, JSInt(0))
       \/ ~Truthy(currentPrice)
    THEN Null
    ELSE JSMul(JSDiv(JSSub(currentPrice, historyPrice), historyPrice), JSInt(100))

\* lines 147-163: the instrument is written only when the history has a price
instrumentFromHistory(inst, hinst) ==
    IF Truthy(OptPrice(hinst))
    THEN [inst EXCEPT
            !.change = Round2(JSSub(inst.price, hinst.price)),
            !.changePercent = Round2(calculateChangeScript(inst.price, hinst.price))]
    ELSE inst

\* lines 170-178
futureFromHistory(f, hmap) ==
    LET historyPrice == MapGet(hmap, f.contract)
        changePercent == calculateChangeScript(f.priceCNY, historyPrice)
    IN  [contract |-> f.contract, month |-> f.month, priceCNY |-> f.priceCNY,
         change |-> RoundUnlessNull(changePercent)]

\* the prices object as applyChangesFromHistory leaves (and returns) it
applyChangesFromHistory(p, h, now) ==
    IF IsNullish(h) \/ h.date = now
    THEN [carbonate |-> [p.carbonate EXCEPT !.change = Null, !.changePercent = Null],
          spodumene |-> [p.spodumene EXCEPT !.change = Null, !.changePercent = Null],
          futures |-> [i \in DOMAIN p.futures |->
                          [contract |-> p.futures[i].contract,
                           month |-> p.futures[i].month,
                           priceCNY |-> p.futures[i].priceCNY,
                           change |-> Null]]]
    ELSE LET hmap == NewMap(OrEmpty(h.futures))
         IN  [carbonate |-> instrumentFromHistory(p.carbonate, h.carbonate),
              spodumene |-> instrumentFromHistory(p.spodumene, h.spodumene),
              futures |-> [i \in DOMAIN p.futures |->
                              futureFromHistory(p.futures[i], hmap)]]

-----------------------------------------------------------------------------
(* src/data/lithiumData.js (and unnamed/part_004): contract expiry.  The    *)
(* date read by new Date() is the parameter at.                            *)

\* mutant: a contract of the current month counts as expired
isContractExpired_CurrentMonthOut(contractCode, at) ==
    LET year == JSAdd(JSInt(2000), ParseInt(Substring(contractCode, 2, 4)))
        month == ParseInt(Substring(contractCode, 4, 6))
        currentYear == JSInt(at.year)
        currentMonth == JSInt(at.monthIndex + 1)
    IN  \/ JSLess(year, currentYear)
        \/ StrictEq(year, currentYear) /\ ~JSLess(currentMonth, month)

isContractExpired(contractCode, at) ==
    LET year == JSAdd(JSInt(2000), ParseInt(Substring(contractCode, 2, 4)))
        month == ParseInt(Substring(contractCode, 4, 6))
        currentYear == JSInt(at.year)
        currentMonth == JSInt(at.monthIndex + 1)
    IN  IF JSLess(year, currentYear) THEN TRUE
        ELSE IF StrictEq(year, currentYear) /\ JSLess(month, currentMonth)
        THEN TRUE
        ELSE FALSE

\* mutant: the filter keeps the active contracts but lists them last first
getActiveContracts_Reversed(futures, at) ==
    LET Active(c) == ~isContractExpired(c.contract, at)
        kept == SelectSeq(futures, Active)
    IN  [i \in DOMAIN kept |-> kept[Len(kept) + 1 - i]]

\* futures.filter(c => !isContractExpired(c.contract))
getActiveContracts(futures, at) ==
    LET Active(c) == ~isContractExpired(c.contract, at)
    IN  SelectSeq(futures, Active)

\* src/data/lithiumData.js:163
DefaultSpodumenePrice == 2035

\* src/data/lithiumData.js:147-186: the record getDefaultData returns when it
\* is called at the given time; of the twelve futures the first two are kept
getDefaultData(at) ==
    [carbonate |-> [k |-> "obj", price |-> JSInt(22704), priceCNY |-> JSInt(164700),
                    change |-> Null, changePercent |-> Null],
     spodumene |-> [k |-> "obj", price |-> JSInt(DefaultSpodumenePrice),
                    change |-> Null, changePercent |-> Null],
     futures |-> [k |-> "array",
                  items |-> <<[contract |-> <<"L", "C", "2", "6", "0", "2">>,
                               priceCNY |-> JSInt(165080), change |-> Null],
                              [contract |-> <<"L", "C", "2", "6", "0", "3">>,
                               priceCNY |-> JSInt(165600), change |-> Null]>>],
     conversionRate |-> Num(72543, 10000),
     lastUpdated |-> Instant(at)]

\* src/data/lithiumData.js:189: evaluated when the module is loaded
defaultData == getDefaultData(0)

Fulfilled(v) == [k |-> "fulfilled", value |-> v]
Rejected == [k |-> "rejected", value |-> Undefined]

\* what fetch(API_URL) and response.json() come to
NetworkError == [k |-> "networkError", ok |-> FALSE, json |-> Undefined]
HttpResponse(ok, json) == [k |-> "response", ok |-> ok, json |-> json]

\* a body that is not JSON: response.json() rejects
NotJSON == [k |-> "notJSON"]

FailedRequest(outcome) == outcome.k = "networkError" \/ ~outcome.ok

\* mutant: a failure is passed on to the caller
fetchPricesFromAPI_Rethrows(outcome, at) ==
    IF outcome.k = "networkError" THEN Rejected
    ELSE IF ~outcome.ok THEN Rejected
    ELSE IF outcome.json = NotJSON THEN Rejected
    ELSE Fulfilled(outcome.json)

\* src/data/lithiumData.js:12-24: the promise fetchPricesFromAPI returns,
\* settled, for an outcome of the request that is known at the given time
fetchPricesFromAPI(outcome, at) ==
    IF outcome.k = "networkError" THEN Fulfilled(getDefaultData(at))
    ELSE IF ~outcome.ok THEN Fulfilled(getDefaultData(at))
    ELSE IF outcome.json = NotJSON THEN Fulfilled(getDefaultData(at))
    ELSE Fulfilled(outcome.json)

\* src/App.jsx:17-20: the state of App before the effect has run
AppBeforeMount ==
    /\ priceData = defaultData
    /\ loading = TRUE
    /\ refreshing = FALSE
    /\ lastUpdated = Null
    /\ mounted = FALSE
    /\ fetches = <<>>
    /\ inflight = {}
    /\ timers = 0
    /\ elapsed = 0
    /\ settled = <<>>
    /\ completed = Null

-----------------------------------------------------------------------------
(* Inputs *)

MaxDay == 2
MaxFutures == 2
MaxHistFutures == 2

Days == 1 .. MaxDay

\* the characters of a number below 100, two digits
TwoDigits(v) == <<DigitChars[(v \div 10) + 1], DigitChars[(v % 10) + 1]>>

\* the contract code LC+YY+MM
Code(yy, mm) == <<"L", "C">> \o TwoDigits(yy) \o TwoDigits(mm)

ContractCodes == {Code(26, 2), Code(26, 3)}

\* the month label of a contract ('Feb-26' for LC2602): month and year digits
Month(c) == [mm |-> SubSeq(c, 5, 6), yy |-> SubSeq(c, 3, 4)]

Obj(price) == [k |-> "obj", price |-> price]
Array(items) == [k |-> "array", items |-> items]

Instrument(price, priceCNY, changeCNY, changeUSD, changePercent) ==
    [price |-> price, priceCNY |-> priceCNY, changeCNY |-> changeCNY,
     changeUSD |-> changeUSD, changePercent |-> changePercent,
     change |-> Undefined]

SeqsUpTo(S, n) == UNION {[1 .. m -> S] : m \in 0 .. n}

FutureItems == {[contract |-> c, month |-> Month(c), priceCNY |-> JSInt(v)] :
                   c \in ContractCodes, v \in {0, 33}}

HistoryFutureItems == {[contract |-> c, priceCNY |-> JSInt(v)] :
                          c \in ContractCodes, v \in {0, 32}}

History(date, carbonate, spodumene, futures) ==
    [k |-> "obj", date |-> date, carbonate |-> carbonate,
     spodumene |-> spodumene, futures |-> futures]

\* snapshots and histories that exercise the two instruments
InstrumentSnapshots ==
    {[carbonate |-> Instrument(JSInt(cp), JSInt(cc), cny, usd, pct),
      spodumene |-> Instrument(JSInt(3), Undefined, Undefined, susd, spct),
      futures |-> <<[contract |-> Code(26, 2), month |-> Month(Code(26, 2)),
                     priceCNY |-> JSInt(33)]>>] :
        cp \in {0, 31, 33}, cc \in {0, 2},
        cny \in {Undefined, Null, JSInt(0), JSInt(2)},
        usd \in {Undefined, JSInt(5)},
        pct \in {Undefined, JSInt(7)},
        susd \in {Undefined, Null, JSInt(0), JSInt(3)},
        spct \in {Undefined, JSInt(7)}}

InstrumentHistories ==
    {Null} \cup
    {History(dt, hc, hs,
             Array(<<[contract |-> Code(26, 2), priceCNY |-> JSInt(32)]>>)) :
        dt \in Days,
        hc \in {Undefined, Obj(Null), Obj(JSInt(0)), Obj(JSInt(32))},
        hs \in {Undefined, Obj(JSInt(0)), Obj(JSInt(32))}}

\* snapshots and histories that exercise the futures curve
FuturesSnapshots ==
    {[carbonate |-> Instrument(JSInt(r[1]), JSInt(r[2]),
                               Undefined, Undefined, Undefined),
      spodumene |-> Instrument(JSInt(3), Undefined,
                               Undefined, Undefined, Undefined),
      futures |-> fs] :
        r \in {<<0, 2>>, <<3, 2>>, <<33, 200>>},
        fs \in SeqsUpTo(FutureItems, MaxFutures)}

FuturesHistories ==
    {Null} \cup
    {History(dt, Obj(JSInt(32)), Obj(JSInt(32)), hf) :
        dt \in Days,
        hf \in {Undefined} \cup
               {Array(s) : s \in SeqsUpTo(HistoryFutureItems, MaxHistFutures)}}

\* snapshots with a price that is not a number
MalformedSnapshots ==
    {[carbonate |-> Instrument(cp, JSInt(200), Undefined, Undefined, Undefined),
      spodumene |-> Instrument(sp, Undefined, Undefined, Undefined, Undefined),
      futures |-> <<[contract |-> Code(26, 2), month |-> Month(Code(26, 2)),
                     priceCNY |-> JSInt(33)]>>] :
        cp \in {NonNumeric, JSInt(33)}, sp \in {NonNumeric, JSInt(3)}}
    \ FuturesSnapshots

PlainHistories ==
    {Null} \cup
    {History(dt, Obj(JSInt(32)), Obj(JSInt(32)),
             Array(<<[contract |-> Code(26, 2), priceCNY |-> JSInt(32)]>>)) :
        dt \in Days}

\* a snapshot and histories whose carbonate prices differ by 3/8: the
\* change in hundredths, 37.5 either way, lies halfway between two integers
TieSnapshots ==
    {[carbonate |-> Instrument(JSInt(2), JSInt(200),
                               Undefined, Undefined, Undefined),
      spodumene |-> Instrument(JSInt(3), Undefined,
                               Undefined, Undefined, Undefined),
      futures |-> <<>>]}

TieHistories ==
    {History(dt, Obj(hc), Obj(JSInt(32)), Array(<<>>)) :
        dt \in Days, hc \in {Num(19, 8), Num(13, 8)}}

\* scripts/fetchPrices.js:90-91, getSampleData: the carbonate spot prices
SamplePrice == 22704
SamplePriceCNY == 164700

\* the sample carbonate prices, no futures
SampleSnapshots ==
    {[carbonate |-> Instrument(JSInt(SamplePrice), JSInt(SamplePriceCNY),
                               Undefined, Undefined, Undefined),
      spodumene |-> Instrument(JSInt(3), Undefined,
                               Undefined, Undefined, Undefined),
      futures |-> <<>>]}

Scalars == {Undefined, Null} \cup {JSInt(v) : v \in {-32, 0, 2, 3, 31, 32, 33}}

NoSnapshot ==
    [carbonate |-> Instrument(Undefined, Undefined, Undefined, Undefined, Undefined),
     spodumene |-> Instrument(Undefined, Undefined, Undefined, Undefined, Undefined),
     futures |-> <<>>]

EngineOps == {"buildResponseStatic", "buildResponseMemory",
              "applyChangesFromHistory"}

HelperOps == {"calculateConversionRate", "calculateChange",
              "calculateChangeScript", "calculatePercentFromChange"}

\* a pending call: the function to run and the arguments it is given
Call(op, p, h, x, y) == [op |-> op, prices |-> p, history |-> h, x |-> x, y |-> y]

InitEngine(snapshots, histories) ==
    /\ prices \in snapshots
    /\ history \in histories
    /\ \E op \in EngineOps : call = Call(op, prices, history, Undefined, Undefined)

InitHelper ==
    /\ prices = NoSnapshot
    /\ history = Null
    /\ \E op \in HelperOps, x \in Scalars, y \in Scalars :
          call = Call(op, prices, history, x, y)

\* the browser's dates: year and zero-based month (Date.getMonth)
Clocks == {[year |-> y, monthIndex |-> m] : y \in {2026, 2027}, m \in {0, 1, 2, 11}}

\* the browser's date while the server-side functions are studied
ServerSideClock == [year |-> 2026, monthIndex |-> 1]

\* contract codes around the browser's dates
ClientCodes == {Code(yy, mm) : yy \in {25, 26, 27}, mm \in {1, 2, 3, 12}}

\* the futures list the browser holds
ClientFutures ==
    SeqsUpTo({[contract |-> c, month |-> Month(c), priceCNY |-> JSInt(33)] :
                 c \in ClientCodes}, MaxFutures)

InitClient ==
    /\ history = Null
    /\ clock \in Clocks
    /\ \/ /\ prices = NoSnapshot
          /\ \E c \in ClientCodes :
                call = Call("isContractExpired", prices, history, c, Undefined)
       \/ /\ \E fs \in ClientFutures : prices = [NoSnapshot EXCEPT !.futures = fs]
          /\ call = Call("getActiveContracts", prices, history, Undefined, Undefined)

Init ==
    /\ today = 1
    /\ result = Pending
    /\ served = {}
    /\ AppBeforeMount
    /\ \/ InitEngine(InstrumentSnapshots, InstrumentHistories) /\ clock = ServerSideClock
       \/ InitEngine(FuturesSnapshots, FuturesHistories) /\ clock = ServerSideClock
       \/ InitEngine(MalformedSnapshots, PlainHistories) /\ clock = ServerSideClock
       \/ InitEngine(SampleSnapshots, PlainHistories) /\ clock = ServerSideClock
       \/ InitEngine(TieSnapshots, TieHistories) /\ clock = ServerSideClock
       \/ InitHelper /\ clock = ServerSideClock
       \/ InitClient

-----------------------------------------------------------------------------
(* Actions: one per function under study *)

Ready(op) == call.op = op /\ result = Pending

BuildResponseStatic ==
    /\ Ready("buildResponseStatic")
    /\ result' = buildResponseStatic(prices, history, today)
    /\ UNCHANGED <<appVars, prices, history, today, clock, call, served>>

\* mutant: the changes are written into the snapshot that was passed, as
\* applyChangesFromHistory does
BuildResponseMemory_InPlace ==
    /\ Ready("buildResponseMemory")
    /\ result' = buildResponseMemory(prices, history, today)
    /\ prices' = [prices EXCEPT !.carbonate = result'.value.carbonate,
                                !.spodumene = result'.value.spodumene]
    /\ UNCHANGED <<appVars, history, today, clock, call, served>>

BuildResponseMemory ==
    /\ Ready("buildResponseMemory")
    /\ result' = buildResponseMemory(prices, history, today)
    /\ UNCHANGED <<appVars, prices, history, today, clock, call, served>>

\* the script mutates the object it is given and returns it
ApplyChangesFromHistory ==
    /\ Ready("applyChangesFromHistory")
    /\ prices' = applyChangesFromHistory(prices, history, today)
    /\ result' = Return(prices')
    /\ UNCHANGED <<appVars, history, today, clock, call, served>>

CalculateConversionRate ==
    /\ Ready("calculateConversionRate")
    /\ result' = Return(calculateConversionRate(
                            [price |-> call.x, priceCNY |-> call.y]))
    /\ UNCHANGED <<appVars, prices, history, today, clock, call, served>>

CalculateChange ==
    /\ Ready("calculateChange")
    /\ result' = Return(calculateChange(call.x, call.y))
    /\ UNCHANGED <<appVars, prices, history, today, clock, call, served>>

CalculateChangeScript ==
    /\ Ready("calculateChangeScript")
    /\ result' = Return(calculateChangeScript(call.x, call.y))
    /\ UNCHANGED <<appVars, prices, history, today, clock, call, served>>

CalculatePercentFromChange ==
    /\ Ready("calculatePercentFromChange")
    /\ result' = Return(calculatePercentFromChange(call.x, call.y))
    /\ UNCHANGED <<appVars, prices, history, today, clock, call, served>>

IsContractExpired ==
    /\ Ready("isContractExpired")
    /\ result' = Return(isContractExpired(call.x, clock))
    /\ UNCHANGED <<appVars, prices, history, today, clock, call, served>>

\* filter builds a new array and leaves the one it is called on alone
GetActiveContracts ==
    /\ Ready("getActiveContracts")
    /\ result' = Return(getActiveContracts(prices.futures, clock))
    /\ UNCHANGED <<appVars, prices, history, today, clock, call, served>>

Next ==
    \/ BuildResponseStatic
    \/ BuildResponseMemory
    \/ ApplyChangesFromHistory
    \/ CalculateConversionRate
    \/ CalculateChange
    \/ CalculateChangeScript
    \/ CalculatePercentFromChange
    \/ IsContractExpired
    \/ GetActiveContracts

Spec == Init /\ [][Next]_vars


-----------------------------------------------------------------------------
(* The programs in use: the request handler of api/prices.js:285-305 over   *)
(* its in-memory priceHistory, and repeated runs of scripts/fetchPrices.js *)
(* over its history file.  prices is CURRENT_PRICES (the sample data of    *)
(* the script), history the stored history, call the last request (run),   *)
(* result the last response (the prices file written).                     *)

\* { ...o }: a copy of an object's own properties
Spread(o) == [f \in DOMAIN o \cup {"k"} |-> IF f = "k" THEN "obj" ELSE o[f]]

\* mutant: the save keeps the date of a history that is already stored
handlerSnapshot_KeepDate(p, now) ==
    [k |-> "obj",
     date |-> IF IsNullish(history) THEN now ELSE history.date,
     savedAt |-> Instant(now),
     carbonate |-> Spread(p.carbonate),
     spodumene |-> Spread(p.spodumene),
     futures |-> Array([i \in DOMAIN p.futures |-> p.futures[i]])]

\* mutant: the save leaves the futures out of the history
handlerSnapshot_NoFutures(p, now) ==
    [k |-> "obj",
     date |-> now,
     savedAt |-> Instant(now),
     carbonate |-> Spread(p.carbonate),
     spodumene |-> Spread(p.spodumene),
     futures |-> Array(<<>>)]

\* api/prices.js:293-299: the object assigned to priceHistory
handlerSnapshot(p, now) ==
    [k |-> "obj",
     date |-> now,
     savedAt |-> Instant(now),
     carbonate |-> Spread(p.carbonate),
     spodumene |-> Spread(p.spodumene),
     futures |-> Array([i \in DOMAIN p.futures |-> p.futures[i]])]

\* scripts/fetchPrices.js:50-64: the object written to the history file
saveHistory(p, now) ==
    [k |-> "obj",
     date |-> now,
     savedAt |-> Instant(now),
     carbonate |-> [k |-> "obj", price |-> p.carbonate.price,
                    priceCNY |-> p.carbonate.priceCNY],
     spodumene |-> [k |-> "obj", price |-> p.spodumene.price],
     futures |-> Array([i \in DOMAIN p.futures |->
                           [contract |-> p.futures[i].contract,
                            priceCNY |-> p.futures[i].priceCNY]])]

\* scripts/fetchPrices.js:201-211: the record main writes to the prices file
mainPrices(sample, h, now) ==
    LET applied == applyChangesFromHistory(sample, h, now)
    IN  [carbonate |-> applied.carbonate,
         spodumene |-> applied.spodumene,
         futures |-> applied.futures,
         conversionRate |-> JSDiv(sample.carbonate.priceCNY, sample.carbonate.price),
         lastUpdated |-> now,
         historyDate |-> historyDate(h)]

Response(body) == [k |-> "response", status |-> 200, body |-> body]

File(content) == [k |-> "file", content |-> content]

Methods == {"GET", "POST", "OPTIONS"}

Requests == {[op |-> "handler", method |-> m, action |-> a] :
                m \in Methods, a \in {"save-history", "none"}}

\* a computation of the changes, as the log keeps it
Served(p, h, now, value) ==
    [prices |-> p, history |-> h, today |-> now,
     carbonate |-> [change |-> value.carbonate.change,
                    changePercent |-> value.carbonate.changePercent],
     spodumene |-> [change |-> value.spodumene.change,
                    changePercent |-> value.spodumene.changePercent],
     futures |-> [i \in DOMAIN value.futures |-> value.futures[i].change],
     again |-> FALSE]

\* the log with one more computation: an entry that is already there is
\* marked as having recurred
Logged(log, e) ==
    IF e \in log \/ [e EXCEPT !.again = TRUE] \in log
    THEN (log \ {e}) \cup {[e EXCEPT !.again = TRUE]}
    ELSE log \cup {e}

\* the snapshots CURRENT_PRICES may hold
HandlerSnapshots ==
    {p \in FuturesSnapshots : p.carbonate.price = JSInt(33)}
    \cup {p \in InstrumentSnapshots :
             /\ p.carbonate.price = JSInt(31) /\ p.carbonate.priceCNY = JSInt(2)
             /\ p.carbonate.changeCNY \in {Undefined, JSInt(0)}
             /\ p.carbonate.changeUSD = Undefined
             /\ p.carbonate.changePercent = Undefined
             /\ p.spodumene.changeUSD \in {Undefined, JSInt(0)}
             /\ p.spodumene.changePercent = Undefined}

\* the sample data of the script carry no scraped field
ScriptSamples ==
    {p \in FuturesSnapshots : p.carbonate.price = JSInt(33) /\ Len(p.futures) > 0}

\* the history files a first run of the script may find
HistoryFiles ==
    {Null} \cup
    {h \in FuturesHistories :
        /\ ~IsNullish(h)
        /\ h.futures.k = "array"
        /\ Len(h.futures.items) = 1}

InitHandler ==
    /\ today = 1
    /\ AppBeforeMount
    /\ clock = ServerSideClock
    /\ result = Pending
    /\ served = {}
    /\ \/ /\ prices \in HandlerSnapshots
          /\ history = Null
          /\ call = [op |-> "handler", method |-> "none", action |-> "none"]
       \/ /\ prices \in ScriptSamples
          /\ history \in HistoryFiles
          /\ call = [op |-> "main", save |-> FALSE]

\* mutant: an OPTIONS request with action=save-history reaches the save
HandlerOptions_FallsThrough ==
    /\ call.op = "handler"
    /\ \E req \in Requests :
          /\ req.method = "OPTIONS"
          /\ call' = req
          /\ history' = IF req.action = "save-history"
                        THEN handlerSnapshot(prices, today) ELSE history
    /\ result' = Response(Undefined)
    /\ UNCHANGED <<appVars, prices, today, clock, served>>

\* api/prices.js:290
HandlerOptions ==
    /\ call.op = "handler"
    /\ \E req \in Requests :
          /\ req.method = "OPTIONS"
          /\ call' = req
    /\ result' = Response(Undefined)
    /\ UNCHANGED <<appVars, prices, history, today, clock, served>>

\* mutant: a save over a stored history replaces its fields one request
\* apart: savedAt is still that of the save before
HandlerSaveHistory_FieldByField ==
    /\ call.op = "handler"
    /\ \E req \in Requests :
          /\ req.method = "POST" /\ req.action = "save-history"
          /\ call' = req
    /\ history' = [handlerSnapshot(prices, today) EXCEPT
                      !.savedAt = IF IsNullish(history) THEN Instant(today)
                                  ELSE history.savedAt]
    /\ result' = Response([success |-> TRUE, date |-> history'.date])
    /\ UNCHANGED <<appVars, prices, today, clock, served>>

\* api/prices.js:292-301
HandlerSaveHistory ==
    /\ call.op = "handler"
    /\ \E req \in Requests :
          /\ req.method = "POST" /\ req.action = "save-history"
          /\ call' = req
    /\ history' = handlerSnapshot(prices, today)
    /\ result' = Response([success |-> TRUE, date |-> history'.date])
    /\ UNCHANGED <<appVars, prices, today, clock, served>>

\* mutant: a response that follows a save treats the history as stale, any
\* other response treats it as valid
HandlerRespond_StaleAfterSave ==
    /\ call.op = "handler"
    /\ \E req \in Requests :
          /\ req.method # "OPTIONS"
          /\ ~(req.method = "POST" /\ req.action = "save-history")
          /\ call' = req
    /\ LET now == IF IsNullish(history) THEN today
                  ELSE IF call.action = "save-history"
                       THEN history.date ELSE history.date + 1
           body == buildResponseMemory(prices, history, now).value
       IN  /\ result' = Response(body)
           /\ served' = Logged(served, Served(prices, history, today, body))
    /\ UNCHANGED <<appVars, prices, history, today, clock>>

\* api/prices.js:303-304
HandlerRespond ==
    /\ call.op = "handler"
    /\ \E req \in Requests :
          /\ req.method # "OPTIONS"
          /\ ~(req.method = "POST" /\ req.action = "save-history")
          /\ call' = req
    /\ LET body == buildResponseMemory(prices, history, today).value
       IN  /\ result' = Response(body)
           /\ served' = Logged(served, Served(prices, history, today, body))
    /\ UNCHANGED <<appVars, prices, history, today, clock>>

\* scripts/fetchPrices.js:186-232: one run of the script; save is the
\* outcome of the --save-history flag and of the hour of the day
Main ==
    /\ call.op = "main"
    /\ \E save \in BOOLEAN :
          /\ call' = [op |-> "main", save |-> save]
          /\ LET written == mainPrices(prices, history, today)
             IN  /\ result' = File(written)
                 /\ served' = Logged(served, Served(prices, history, today, written))
                 /\ history' = IF save THEN saveHistory(written, today) ELSE history
    /\ UNCHANGED <<appVars, prices, today, clock>>

\* the date changes
Tick ==
    /\ today < MaxDay
    /\ today' = today + 1
    /\ UNCHANGED <<appVars, prices, history, clock, call, result, served>>

NextHandler ==
    \/ HandlerOptions
    \/ HandlerSaveHistory
    \/ HandlerRespond
    \/ Main
    \/ Tick

SpecHandler == InitHandler /\ [][NextHandler]_vars

-----------------------------------------------------------------------------
(* src/App.jsx: the component that loads the prices *)

\* the calls of loadPrices one behaviour makes
MaxFetches == 3

FetchIds == 1 .. MaxFetches

\* api/prices.js:266-282: the body the endpoint answers with on a given day,
\* as response.json() parses it
ApiBody(day) ==
    [carbonate |-> [k |-> "obj", price |-> JSInt(33), priceCNY |-> JSInt(231),
                    change |-> JSInt(0), changePercent |-> JSInt(0)],
     spodumene |-> [k |-> "obj", price |-> JSInt(3),
                    change |-> JSInt(0), changePercent |-> JSInt(0)],
     futures |-> [k |-> "array", items |-> <<>>],
     conversionRate |-> JSInt(7),
     lastUpdated |-> [k |-> "date", day |-> day]]

\* what a request of the browser may come to: no response, a response whose
\* status is not ok, a response that is not JSON, the body of the endpoint
FetchOutcomes ==
    {NetworkError, HttpResponse(FALSE, Undefined), HttpResponse(TRUE, NotJSON)}
    \cup {HttpResponse(TRUE, ApiBody(d)) : d \in {1, 2}}

InitApp ==
    /\ prices = NoSnapshot
    /\ history = Null
    /\ today = 1
    /\ clock = ServerSideClock
    /\ call = [op |-> "App"]
    /\ result = Pending
    /\ served = {}
    /\ AppBeforeMount

\* src/App.jsx:23-24: loadPrices calls fetchPricesFromAPI and waits
StartFetch(by) ==
    /\ fetches' = Append(fetches, by)
    /\ inflight' = inflight \cup {Len(fetches) + 1}

\* src/App.jsx:33-44: the effect: init runs up to its await, the interval
\* is set
Mount ==
    /\ call.op = "App"
    /\ ~mounted
    /\ mounted' = TRUE
    /\ loading' = TRUE
    /\ StartFetch("init")
    /\ UNCHANGED <<prices, history, today, clock, call, result, served>>
    /\ UNCHANGED <<priceData, refreshing, lastUpdated, timers, elapsed, settled, completed>>

\* src/App.jsx:42: the interval fires and calls loadPrices
IntervalFires ==
    /\ call.op = "App"
    /\ mounted
    /\ Len(fetches) < MaxFetches
    /\ elapsed' = elapsed + 1
    /\ StartFetch("interval")
    /\ UNCHANGED <<prices, history, today, clock, call, result, served>>
    /\ UNCHANGED <<priceData, loading, refreshing, lastUpdated, mounted, timers, settled, completed>>

\* src/App.jsx:46-48, 100, 122-125: a click on the refresh button, which is
\* rendered when loading is false and enabled when refreshing is false
HandleRefresh ==
    /\ call.op = "App"
    /\ mounted
    /\ ~loading
    /\ ~refreshing
    /\ Len(fetches) < MaxFetches
    /\ refreshing' = TRUE
    /\ StartFetch("refresh")
    /\ UNCHANGED <<prices, history, today, clock, call, result, served>>
    /\ UNCHANGED <<priceData, loading, lastUpdated, mounted, timers, elapsed, settled, completed>>

\* mutant: the data of a call are shown only if no call that was started
\* later has completed
SettleFetch_NewestStartedWins(id) ==
    /\ call.op = "App"
    /\ id \in inflight
    /\ \E outcome \in FetchOutcomes :
          LET promise == fetchPricesFromAPI(outcome, elapsed)
              newest == \A i \in DOMAIN settled : settled[i].id < id
          IN  /\ IF promise.k = "fulfilled" /\ newest
                 THEN /\ priceData' = promise.value
                      /\ lastUpdated' = promise.value.lastUpdated
                 ELSE UNCHANGED <<priceData, lastUpdated>>
              /\ settled' = Append(settled, [id |-> id,
                                             failed |-> FailedRequest(outcome)])
              /\ completed' = [outcome |-> outcome, at |-> elapsed,
                               promise |-> promise]
    /\ inflight' = inflight \ {id}
    /\ loading' = IF fetches[id] = "init" THEN FALSE ELSE loading
    /\ timers' = IF fetches[id] = "refresh" THEN timers + 1 ELSE timers
    /\ UNCHANGED <<prices, history, today, clock, call, result, served>>
    /\ UNCHANGED <<refreshing, mounted, fetches, elapsed>>

\* src/data/lithiumData.js:12-24 and src/App.jsx:22-30, 37, 49: the request
\* of one call of loadPrices settles; fetchPricesFromAPI settles its promise,
\* loadPrices sets the state from it (or catches the rejection), and the
\* caller goes on: init sets loading to false, handleRefresh sets its timer
SettleFetch(id) ==
    /\ call.op = "App"
    /\ id \in inflight
    /\ \E outcome \in FetchOutcomes :
          LET promise == fetchPricesFromAPI(outcome, elapsed)
          IN  /\ IF promise.k = "fulfilled"
                 THEN /\ priceData' = promise.value
                      /\ lastUpdated' = promise.value.lastUpdated
                 ELSE UNCHANGED <<priceData, lastUpdated>>
              /\ settled' = Append(settled, [id |-> id,
                                             failed |-> FailedRequest(outcome)])
              /\ completed' = [outcome |-> outcome, at |-> elapsed,
                               promise |-> promise]
    /\ inflight' = inflight \ {id}
    /\ loading' = IF fetches[id] = "init" THEN FALSE ELSE loading
    /\ timers' = IF fetches[id] = "refresh" THEN timers + 1 ELSE timers
    /\ UNCHANGED <<prices, history, today, clock, call, result, served>>
    /\ UNCHANGED <<refreshing, mounted, fetches, elapsed>>

\* src/App.jsx:50: the callback of setTimeout
TimerFires ==
    /\ call.op = "App"
    /\ timers > 0
    /\ refreshing' = FALSE
    /\ timers' = timers - 1
    /\ UNCHANGED <<prices, history, today, clock, call, result, served>>
    /\ UNCHANGED <<priceData, loading, lastUpdated, mounted, fetches,
                   inflight, elapsed, settled, completed>>

NextApp ==
    \/ Mount
    \/ IntervalFires
    \/ HandleRefresh
    \/ \E id \in FetchIds : SettleFetch(id)
    \/ TimerFires

SpecApp == InitApp /\ [][NextApp]_vars

\* every request of the browser settles, and every timer fires
SpecAppFair ==
    /\ SpecApp
    /\ \A id \in FetchIds : WF_vars(SettleFetch(id))
    /\ WF_vars(TimerFires)

-----------------------------------------------------------------------------
(* Vocabulary of the properties *)

Returned(op) == call.op = op /\ result.k = "return"

Finished(op) == call.op = op /\ result.k # "pending"

InstrumentNames == {"carbonate", "spodumene"}

\* the value a finished engine call produced
out == result.value

\* what an engine function yields for a snapshot, a history and a date
EngineResult(op, p, h, now) ==
    CASE op = "buildResponseStatic" -> buildResponseStatic(p, h, now)
      [] op = "buildResponseMemory" -> buildResponseMemory(p, h, now)
      [] op = "applyChangesFromHistory" ->
            Return(applyChangesFromHistory(p, h, now))

\* a scraped change field: neither null nor undefined
Present(v) == ~IsNull(v) /\ ~IsUndefined(v)

HasScraped(inst) ==
    Present(inst.changePercent) \/ Present(inst.changeUSD) \/ Present(inst.changeCNY)

\* the history's price of an instrument (undefined when there is none)
HistPrice(h, name) == IF IsNullish(h) THEN Undefined ELSE OptPrice(h[name])

\* the same history without its entry for one instrument
WithoutEntry(h, name) == IF IsNullish(h) THEN h ELSE [h EXCEPT ![name] = Undefined]

\* a usable baseline: history present, not dated today, price non-null, nonzero
ValidBaseline(h, name) ==
    /\ ~IsNullish(h)
    /\ h.date # today
    /\ IsNumber(HistPrice(h, name))
    /\ HistPrice(h, name).n # 0

\* floor(n/d + 1/2) for integers n and d, d # 0
HalfUp(n, d) ==
    IF d > 0 THEN (2 * n + d) \div (2 * d) ELSE (2 * (-n) - d) \div (2 * (-d))

\* ((cur - prev) / prev) * 100 rounded to hundredths, for integers, prev # 0
Percent2(cur, prev) == Num(HalfUp((cur - prev) * 10000, prev), 100)

NumberOrNull(v) == IsNumber(v) \/ IsNull(v)

\* a snapshot with a price that is not a number
Malformed(p) ==
    \/ p.carbonate.price.k = "str"
    \/ p.carbonate.priceCNY.k = "str"
    \/ p.spodumene.price.k = "str"
    \/ \E i \in DOMAIN p.futures : p.futures[i].priceCNY.k = "str"

\* the call under study was given a snapshot whose prices are numbers
WellFormedCall == ~Malformed(call.prices)

\* the history price the futures map holds for a contract: that of the last
\* entry of the history's list with that code
LastHistoryPrice(h, c) ==
    LET items == IF IsNullish(h) THEN <<>> ELSE OrEmpty(h.futures)
        hits == {i \in DOMAIN items : items[i].contract = c}
    IN  IF hits = {} THEN Undefined
        ELSE items[CHOOSE i \in hits : \A j \in hits : j <= i].priceCNY

-----------------------------------------------------------------------------
(* C1 *)

-----------------------------------------------------------------------------
(* C2 *)

AllChangesNull(r) ==
    /\ \A name \in InstrumentNames :
          IsNull(r[name].change) /\ IsNull(r[name].changePercent)
    /\ \A i \in DOMAIN r.futures : IsNull(r.futures[i].change)

StaleHistory == ~IsNullish(call.history) /\ call.history.date = today

-----------------------------------------------------------------------------
(* C3 *)

\* C3 as stated: buildResponse never throws, whatever the history lacks, and
\* returns a record in which every change is a number or null
C3_NeverThrows ==
    \A op \in {"buildResponseStatic", "buildResponseMemory"} :
        (Finished(op) /\ WellFormedCall) =>
            /\ result.k = "return"
            /\ \A name \in InstrumentNames :
                  /\ NumberOrNull(out[name].change)
                  /\ NumberOrNull(out[name].changePercent)
            /\ \A i \in DOMAIN out.futures : NumberOrNull(out.futures[i].change)
            /\ Len(out.futures) = Len(call.prices.futures)

-----------------------------------------------------------------------------
(* C4 *)

\* C4 as stated: every derived field of a returned record is a number or
\* null, never undefined and never NaN
C4_NumberOrNull ==
    \A op \in EngineOps :
        (Returned(op) /\ WellFormedCall) =>
            /\ \A name \in InstrumentNames :
                  /\ NumberOrNull(out[name].change)
                  /\ NumberOrNull(out[name].changePercent)
            /\ \A i \in DOMAIN out.futures : NumberOrNull(out.futures[i].change)
            /\ op # "applyChangesFromHistory" =>
                  /\ NumberOrNull(out.conversionRate)
                  /\ \A i \in DOMAIN out.futures :
                        NumberOrNull(out.futures[i].price)

-----------------------------------------------------------------------------
(* C5 *)

\* C5 as stated: without a scraped field and with a usable baseline, change
\* is price - historyPrice and changePercent the percent change, to 2 decimals
C5_HistoryDelta ==
    \A op \in EngineOps : \A name \in InstrumentNames :
        (/\ Returned(op)
         /\ WellFormedCall
         /\ ~HasScraped(call.prices[name])
         /\ ValidBaseline(call.history, name)
         /\ HistPrice(call.history, name).d = 1) =>
            LET cur == call.prices[name].price.n
                prev == HistPrice(call.history, name).n
            IN  /\ out[name].change = JSInt(cur - prev)
                /\ out[name].changePercent = Percent2(cur, prev)

-----------------------------------------------------------------------------
(* C6 *)

\* C6 as stated: without a scraped field and without a usable baseline both
\* change and changePercent are null
C6_NoBaselineNull ==
    \A op \in EngineOps : \A name \in InstrumentNames :
        (/\ Returned(op)
         /\ WellFormedCall
         /\ ~HasScraped(call.prices[name])
         /\ ~ValidBaseline(call.history, name)) =>
            /\ IsNull(out[name].change)
            /\ IsNull(out[name].changePercent)

-----------------------------------------------------------------------------
(* C7 *)

ZeroOrAbsent(v) == IsUndefined(v) \/ IsNull(v) \/ (IsNumber(v) /\ v.n = 0)

\* C7: calculateConversionRate returns 6.98 when price or priceCNY is zero,
\* null or absent, priceCNY / price otherwise, and always returns
C7_ConversionRate ==
    Finished("calculateConversionRate") =>
        /\ result.k = "return"
        /\ IF ZeroOrAbsent(call.x) \/ ZeroOrAbsent(call.y)
           THEN out = [k |-> "num", n |-> 349, d |-> 50]
           ELSE /\ IsNumber(out)
                /\ out.n * call.x.n * call.y.d = call.y.n * call.x.d * out.d

\* C7 witness: the fallback fired on a zero price with a CNY price present
C7_Witness ==
    /\ Returned("calculateConversionRate")
    /\ call.x = JSInt(0)
    /\ IsNumber(call.y) /\ call.y.n # 0
    /\ out.n * 50 = 349 * out.d

-----------------------------------------------------------------------------
(* C8 *)

\* C8 as stated: calculateChange(current, previous) is null when previous is
\* zero, null or undefined and ((current - previous) / previous) * 100 for
\* every other previous, also when current is 0
C8_PercentChange ==
    \A op \in {"calculateChange", "calculateChangeScript"} :
        (Returned(op) /\ IsNumber(call.x)) =>
            IF ZeroOrAbsent(call.y)
            THEN IsNull(out)
            ELSE /\ IsNumber(out)
                 /\ out.n * call.y.n = (call.x.n - call.y.n) * 100 * out.d

-----------------------------------------------------------------------------
(* C9 *)

\* C9 as stated: each future's price is priceCNY divided by the record's
\* conversionRate, rounded half up
C9_PriceByRecordRate ==
    \A op \in {"buildResponseStatic", "buildResponseMemory"} :
        (Returned(op) /\ WellFormedCall) =>
            \A i \in DOMAIN out.futures :
                out.futures[i].price =
                    JSInt(HalfUp(out.futures[i].priceCNY.n * out.conversionRate.d,
                                 out.conversionRate.n))

\* C9 amended: each future's price is priceCNY divided by the conversion
\* rate before it is rounded (carbonate.priceCNY / carbonate.price, or 6.98),
\* rounded half up; the record's conversionRate is that rate to 4 decimals.
C9_PriceByExactRate ==
    \A op \in {"buildResponseStatic", "buildResponseMemory"} :
        (Returned(op) /\ WellFormedCall) =>
            LET cp == call.prices.carbonate.price.n
                cc == call.prices.carbonate.priceCNY.n
                g == Gcd(Abs(cc), Abs(cp))
                rn == IF cp = 0 \/ cc = 0 THEN 698 ELSE cc \div g
                rd == IF cp = 0 \/ cc = 0 THEN 100 ELSE cp \div g
            IN  /\ out.conversionRate = Num(HalfUp(rn * 10000, rd), 10000)
                /\ \A i \in DOMAIN out.futures :
                      out.futures[i].price =
                          JSInt(HalfUp(call.prices.futures[i].priceCNY.n * rd, rn))

\* C9 witness: a returned future whose price is not the one the published
\* rate gives
C9_Witness ==
    /\ Returned("buildResponseMemory")
    /\ \E i \in DOMAIN out.futures :
          out.futures[i].price #
              JSInt(HalfUp(out.futures[i].priceCNY.n * out.conversionRate.d,
                           out.conversionRate.n))

-----------------------------------------------------------------------------
(* C10 *)

\* C10 as stated: a future found in the history with a nonzero priceCNY, the
\* history not dated today, has change = percent change of the CNY prices to
\* 2 decimals; every other future has change null.  Stated of the two
\* variants that compare the history's date with today (the static variant
\* has no date test at all, see C2).
C10_FutureChange ==
    \A op \in {"buildResponseMemory", "applyChangesFromHistory"} :
        Returned(op) =>
            \A i \in DOMAIN out.futures :
                LET f == call.prices.futures[i]
                    hp == LastHistoryPrice(call.history, f.contract)
                IN  IF /\ ~IsNullish(call.history)
                       /\ call.history.date # today
                       /\ IsNumber(hp) /\ hp.n # 0
                    THEN out.futures[i].change = Percent2(f.priceCNY.n, hp.n)
                    ELSE IsNull(out.futures[i].change)

-----------------------------------------------------------------------------
(* C11 *)

\* C11: the futures of the output have the length of the input futures and,
\* at every index, the contract, month and priceCNY of the input at that
\* index, whatever the history holds and in whatever order
C11_FuturesOrderPreserved ==
    \A op \in EngineOps :
        Returned(op) =>
            /\ Len(out.futures) = Len(call.prices.futures)
            /\ \A i \in 1 .. Len(call.prices.futures) :
                  /\ out.futures[i].contract = call.prices.futures[i].contract
                  /\ out.futures[i].month = call.prices.futures[i].month
                  /\ out.futures[i].priceCNY = call.prices.futures[i].priceCNY

\* C11 witness: two different contracts came back in the input order although
\* the history lists them in the opposite order
C11_Witness ==
    /\ Returned("buildResponseMemory")
    /\ Len(call.prices.futures) = 2
    /\ call.prices.futures[1].contract # call.prices.futures[2].contract
    /\ ~IsNullish(call.history)
    /\ call.history.futures.k = "array"
    /\ Len(call.history.futures.items) = 2
    /\ call.history.futures.items[1].contract = call.prices.futures[2].contract
    /\ call.history.futures.items[2].contract = call.prices.futures[1].contract
    /\ out.futures[1].contract = call.prices.futures[1].contract
    /\ out.futures[2].contract = call.prices.futures[2].contract

-----------------------------------------------------------------------------
(* C12 *)

\* the indices of the history's futures entries that carry a contract code
HistoryHits(h, c) ==
    LET items == IF IsNullish(h) THEN <<>> ELSE OrEmpty(h.futures)
    IN  {i \in DOMAIN items : items[i].contract = c}

\* C12: when the history lists a contract code more than once, the baseline
\* of that contract's change is the priceCNY of the last entry with the code:
\* a last price of 0 gives change null whatever the earlier entries hold, and
\* a nonzero last price gives the percent change against it (the variants
\* with a date test: when the history is not dated today)
C12_LastDuplicateWins ==
    \A op \in EngineOps :
        Returned(op) =>
            \A i \in DOMAIN out.futures :
                LET f == call.prices.futures[i]
                    last == LastHistoryPrice(call.history, f.contract)
                IN  Cardinality(HistoryHits(call.history, f.contract)) > 1 =>
                        /\ last.n = 0 => IsNull(out.futures[i].change)
                        /\ (/\ last.n # 0
                            /\ f.priceCNY.n # 0
                            /\ op = "buildResponseStatic" \/ call.history.date # today)
                           => out.futures[i].change = Percent2(f.priceCNY.n, last.n)

\* C12 witness: a contract listed twice with different prices, the change
\* taken against the second one
C12_Witness ==
    /\ Returned("buildResponseMemory")
    /\ ~IsNullish(call.history)
    /\ call.history.date # today
    /\ \E i \in DOMAIN out.futures :
          LET f == call.prices.futures[i]
              hits == HistoryHits(call.history, f.contract)
          IN  /\ hits = {1, 2}
              /\ call.history.futures.items[1].priceCNY = JSInt(0)
              /\ call.history.futures.items[2].priceCNY = JSInt(32)
              /\ f.priceCNY = JSInt(33)
              /\ out.futures[i].change = Percent2(33, 32)

-----------------------------------------------------------------------------
(* C13 *)

\* the two-digit number at characters i, i+1 of a contract code
CodeNumber(c, i) == 10 * DigitValue(c[i]) + DigitValue(c[i + 1])

\* expiry as the rule states it, on the year and month a code spells and a
\* calendar year and month (1..12)
ExpiredAt(c, year, month) ==
    \/ 2000 + CodeNumber(c, 3) < year
    \/ 2000 + CodeNumber(c, 3) = year /\ CodeNumber(c, 5) < month

\* C13: a contract LC+YY+MM is expired iff 2000+YY is before the current
\* year, or is the current year and MM is before the current month; a
\* contract of the current month, or of a later year, is not expired
C13_ExpiredIff ==
    Finished("isContractExpired") =>
        /\ result.k = "return"
        /\ out = ExpiredAt(call.x, clock.year, clock.monthIndex + 1)
        /\ (2000 + CodeNumber(call.x, 3) = clock.year
              /\ CodeNumber(call.x, 5) = clock.monthIndex + 1) => out = FALSE
        /\ 2000 + CodeNumber(call.x, 3) > clock.year => out = FALSE

\* C13 witness: LC2602 found expired in March 2026
C13_Witness ==
    /\ Returned("isContractExpired")
    /\ call.x = <<"L", "C", "2", "6", "0", "2">>
    /\ clock = [year |-> 2026, monthIndex |-> 2]
    /\ out = TRUE

\* LC2602 found not expired in February 2026, its own month
C13_SameMonthWitness ==
    /\ Returned("isContractExpired")
    /\ call.x = <<"L", "C", "2", "6", "0", "2">>
    /\ clock = [year |-> 2026, monthIndex |-> 1]
    /\ out = FALSE

-----------------------------------------------------------------------------
(* C14 *)

\* the indices of a futures list whose contract is not expired
ActiveIndices(futures) ==
    {j \in DOMAIN futures :
        ~ExpiredAt(futures[j].contract, clock.year, clock.monthIndex + 1)}

\* C14: getActiveContracts returns exactly the futures of its input that are
\* not expired, in their original relative order (the result is the input
\* read along a strictly increasing selection of all the active indices),
\* and the input list is as it was
C14_ActiveInOrder ==
    Finished("getActiveContracts") =>
        /\ result.k = "return"
        /\ prices = call.prices
        /\ Len(out) = Cardinality(ActiveIndices(call.prices.futures))
        /\ \E sel \in [DOMAIN out -> DOMAIN call.prices.futures] :
              /\ \A i \in DOMAIN out : out[i] = call.prices.futures[sel[i]]
              /\ \A i, j \in DOMAIN out : i < j => sel[i] < sel[j]
              /\ {sel[i] : i \in DOMAIN out} = ActiveIndices(call.prices.futures)

\* C14 witness: an expired contract dropped from the head of the list, the
\* active one behind it kept
C14_Witness ==
    /\ Returned("getActiveContracts")
    /\ Len(call.prices.futures) = 2
    /\ ActiveIndices(call.prices.futures) = {2}
    /\ out = <<call.prices.futures[2]>>

\* two different active contracts kept in the order of the input
C14_OrderWitness ==
    /\ Returned("getActiveContracts")
    /\ Len(call.prices.futures) = 2
    /\ call.prices.futures[1] # call.prices.futures[2]
    /\ out = call.prices.futures

-----------------------------------------------------------------------------
(* C15 *)

\* a step that serves a save-history request, or a run of the script that
\* saves the history
SaveStep ==
    /\ vars' # vars
    /\ today' = today
    /\ \/ call'.op = "handler" /\ call'.method = "POST"
                               /\ call'.action = "save-history"
       \/ call'.op = "main" /\ call'.save

\* every property of an object is the property of the same name of another
CopiedFrom(o, original) ==
    \A f \in DOMAIN o \ {"k"} : f \in DOMAIN original /\ o[f] = original[f]

\* a history that holds nothing but today's date and the current prices
FreshSnapshot(h, p, now) ==
    /\ DOMAIN h = {"k", "date", "savedAt", "carbonate", "spodumene", "futures"}
    /\ h.date = now
    /\ h.savedAt = Instant(now)
    /\ h.carbonate.price = p.carbonate.price
    /\ h.carbonate.priceCNY = p.carbonate.priceCNY
    /\ CopiedFrom(h.carbonate, p.carbonate)
    /\ h.spodumene.price = p.spodumene.price
    /\ CopiedFrom(h.spodumene, p.spodumene)
    /\ h.futures.k = "array"
    /\ Len(h.futures.items) = Len(p.futures)
    /\ \A i \in DOMAIN p.futures :
          /\ h.futures.items[i].contract = p.futures[i].contract
          /\ h.futures.items[i].priceCNY = p.futures[i].priceCNY
          /\ CopiedFrom(h.futures.items[i], p.futures[i])

\* C15: after every save-history action the stored history is a fresh
\* snapshot of the current prices dated today, in which nothing of the
\* history stored before is left
C15_SaveOverwritesWholesale ==
    [][SaveStep => FreshSnapshot(history', prices', today')]_vars

\* C15 witness: a run of the script found a history of an earlier day with
\* a single contract, used it, and saved today's two contracts over it
C15_Witness ==
    /\ call.op = "main" /\ call.save
    /\ result.k = "file"
    /\ result.content.historyDate.k = "date"
    /\ result.content.historyDate.day < today
    /\ \E i \in DOMAIN result.content.futures :
          IsNumber(result.content.futures[i].change)
    /\ Len(prices.futures) = 2
    /\ FreshSnapshot(history, prices, today)

-----------------------------------------------------------------------------
(* C16 *)

\* C16 as stated: buildResponse given a snapshot with a non-numeric price
\* ends in a validation failure reported to the caller, never in a record
C16_MalformedRejected ==
    (Finished("buildResponseMemory") /\ Malformed(call.prices)) =>
        result = Throw("ValidationError")

-----------------------------------------------------------------------------
(* C17 *)

-----------------------------------------------------------------------------
(* C18 *)

\* two logged computations were given the same snapshot, the same history
\* and the same date
SameInputs(a, b) ==
    a.prices = b.prices /\ a.history = b.history /\ a.today = b.today

-----------------------------------------------------------------------------
(* C19 *)

\* the call under study was given the sample carbonate prices
SampleCall ==
    /\ call.prices.carbonate.price = JSInt(SamplePrice)
    /\ call.prices.carbonate.priceCNY = JSInt(SamplePriceCNY)

\* C19 as stated: for carbonate price 22704 and priceCNY 164700 the record's
\* conversionRate is 7.2533
C19_SampleRate7_2533 ==
    \A op \in {"buildResponseStatic", "buildResponseMemory"} :
        (Returned(op) /\ SampleCall) =>
            out.conversionRate.n * 10000 = 72533 * out.conversionRate.d

\* C19 amended: for carbonate price 22704 and priceCNY 164700 the record's
\* conversionRate is 7.2542 (164700 / 22704 = 7.25423...)
C19_SampleRate7_2542 ==
    \A op \in {"buildResponseStatic", "buildResponseMemory"} :
        (Returned(op) /\ SampleCall) =>
            /\ IsNumber(out.conversionRate)
            /\ out.conversionRate.n * 10000 = 72542 * out.conversionRate.d

\* C19 witness: a record built from the sample prices, with a rate between
\* 7.2541 and 7.2543
C19_Witness ==
    /\ Returned("buildResponseMemory")
    /\ SampleCall
    /\ out.conversionRate.n * 10000 > 72541 * out.conversionRate.d
    /\ out.conversionRate.n * 10000 < 72543 * out.conversionRate.d

-----------------------------------------------------------------------------
(* C20 *)

\* n/d (d > 0) rounded to the nearest integer, halves away from zero
HalfAway(n, d) ==
    IF n >= 0 THEN (2 * n + d) \div (2 * d)
    ELSE -((2 * (-n) + d) \div (2 * d))

\* n/d (d > 0) rounded to the nearest integer, halves to the even neighbour
HalfEven(n, d) ==
    LET q == n \div d
        twice == 2 * (n - q * d)
    IN  IF twice < d THEN q
        ELSE IF twice > d THEN q + 1
        ELSE IF q % 2 = 0 THEN q ELSE q + 1

\* C20 as stated, for the change of an instrument taken from the history
\* (price - historyPrice): the final value is the difference rounded to
\* hundredths with halves away from zero, or with halves to even; where the
\* two rules agree, as on -37.5 hundredths, the value is the one they give
C20_HalfAwayOrHalfEven ==
    \A op \in EngineOps : \A name \in InstrumentNames :
        (/\ Returned(op)
         /\ WellFormedCall
         /\ IsUndefined(call.prices[name].changeCNY)
         /\ IsUndefined(call.prices[name].changeUSD)
         /\ IsUndefined(call.prices[name].changePercent)
         /\ ValidBaseline(call.history, name)) =>
            LET raw == JSSub(call.prices[name].price, HistPrice(call.history, name))
            IN  out[name].change \in
                    {Num(HalfAway(raw.n * 100, raw.d), 100),
                     Num(HalfEven(raw.n * 100, raw.d), 100)}

-----------------------------------------------------------------------------
(* C21 *)

\* C21: for numbers current and previous, previous not 0, the result r of
\* calculateChange(current, previous) is a number with
\* previous * (1 + r / 100) = current, exactly
C21_ChangeInverts ==
    (/\ Returned("calculateChange")
     /\ IsNumber(call.x)
     /\ IsNumber(call.y) /\ call.y.n # 0) =>
        /\ IsNumber(out)
        /\ JSMul(call.y, JSAdd(JSInt(1), JSDiv(out, JSInt(100)))) = call.x
        /\ call.y.n * (100 * out.d + out.n) * call.x.d
              = call.x.n * 100 * out.d * call.y.d

\* C21 witness: a change against a negative previous value that is not a
\* whole percent
C21_Witness ==
    /\ Returned("calculateChange")
    /\ call.x = JSInt(33)
    /\ call.y = JSInt(-32)
    /\ IsNumber(out) /\ out.d # 1

-----------------------------------------------------------------------------
(* C22 *)

\* a history cut down to the futures entries of one contract code
OwnEntries(h, c) ==
    IF IsNullish(h) \/ h.futures.k # "array" THEN h
    ELSE LET Own(e) == e.contract = c
         IN  [h EXCEPT !.futures = Array(SelectSeq(h.futures.items, Own))]

\* C22: the price and change of each future are those the same call gives
\* for that future alone against the history cut down to the entries of its
\* own contract code (so the entries of other contracts, present, absent or
\* different, and the other futures have no influence); a contract that the
\* history does not hold gets change null
C22_FutureFrame ==
    \A op \in EngineOps :
        Returned(op) =>
            \A i \in DOMAIN out.futures :
                LET f == call.prices.futures[i]
                    alone == [call.prices EXCEPT !.futures = <<f>>]
                    own == OwnEntries(call.history, f.contract)
                IN  /\ out.futures[i] =
                          EngineResult(op, alone, own, today).value.futures[1]
                    /\ HistoryHits(call.history, f.contract) = {} =>
                          IsNull(out.futures[i].change)

\* C22 witness: two contracts, the history (of another day) holds a price
\* for the first only: the first has a change, the second has none
C22_Witness ==
    /\ Returned("buildResponseMemory")
    /\ ~IsNullish(call.history)
    /\ call.history.date # today
    /\ Len(call.prices.futures) = 2
    /\ call.prices.futures[1].contract # call.prices.futures[2].contract
    /\ Truthy(LastHistoryPrice(call.history, call.prices.futures[1].contract))
    /\ HistoryHits(call.history, call.prices.futures[2].contract) = {}
    /\ IsNumber(out.futures[1].change)
    /\ IsNull(out.futures[2].change)

-----------------------------------------------------------------------------
(* C23 *)

\* a snapshot and a history from which one instrument is blanked out: its
\* fields are all undefined and the history has no entry for it
BlankedPrices(p, name) == [p EXCEPT ![name] = NoSnapshot[name]]

\* C23: the change and changePercent of each instrument are those the same
\* call gives when the other instrument is blanked out of the snapshot and
\* of the history: spodumene's do not depend on carbonate's scraped fields,
\* prices or history price, and carbonate's (whose CNY change is converted
\* with carbonate's own prices) do not depend on spodumene's
C23_InstrumentsIndependent ==
    \A op \in EngineOps :
        Returned(op) =>
            \A name \in InstrumentNames :
                LET other == CHOOSE o \in InstrumentNames : o # name
                    r == EngineResult(op, BlankedPrices(call.prices, other),
                                      WithoutEntry(call.history, other),
                                      today).value
                IN  /\ out[name].change = r[name].change
                    /\ out[name].changePercent = r[name].changePercent

\* C23 witness: carbonate answered from its scraped changeCNY while
\* spodumene, without a scraped change, answered from the history
C23_Witness ==
    /\ Returned("buildResponseMemory")
    /\ IsNumber(call.prices.carbonate.changeCNY)
    /\ call.prices.carbonate.changeCNY.n # 0
    /\ IsUndefined(call.prices.spodumene.changeUSD)
    /\ ValidBaseline(call.history, "carbonate")
    /\ ValidBaseline(call.history, "spodumene")
    /\ out.spodumene.change =
          Round2(JSSub(call.prices.spodumene.price,
                       HistPrice(call.history, "spodumene")))
    /\ out.carbonate.change #
          Round2(JSSub(call.prices.carbonate.price,
                       HistPrice(call.history, "carbonate")))

-----------------------------------------------------------------------------
(* C24 *)

\* the scraped absolute change of an instrument: changeCNY for carbonate,
\* changeUSD for spodumene
ScrapedAbsolute(p, name) ==
    IF name = "carbonate" THEN p.carbonate.changeCNY ELSE p.spodumene.changeUSD

\* C24 as stated, of both buildResponse variants: a scraped absolute change
\* of 0 gives change 0 and changePercent 0
C24_ZeroIsNoChange ==
    \A op \in {"buildResponseStatic", "buildResponseMemory"} :
        \A name \in InstrumentNames :
            (/\ Returned(op)
             /\ WellFormedCall
             /\ ScrapedAbsolute(call.prices, name) = JSInt(0)) =>
                /\ out[name].change = JSInt(0)
                /\ out[name].changePercent = JSInt(0)

\* what does hold of C24: in the in-memory buildResponse a scraped absolute
\* change of 0 gives change 0 and changePercent 0, whatever the history
\* holds; in the static buildResponse the history price decides when there
\* is one, and a scraped changeUSD of 0 gives change 0 only when there is none
C24_ZeroIsNoChangeInMemory ==
    /\ \A name \in InstrumentNames :
          (/\ Returned("buildResponseMemory")
           /\ WellFormedCall
           /\ ScrapedAbsolute(call.prices, name) = JSInt(0)) =>
              /\ out[name].change = JSInt(0)
              /\ out[name].changePercent = JSInt(0)
    /\ \A name \in InstrumentNames :
          (/\ Returned("buildResponseStatic")
           /\ WellFormedCall
           /\ call.prices[name].changeUSD = JSInt(0)) =>
              out[name].change =
                  IF Truthy(HistPrice(call.history, name))
                  THEN Round2(JSSub(call.prices[name].price,
                                    HistPrice(call.history, name)))
                  ELSE JSInt(0)

\* the in-memory case reached: carbonate with changeCNY = 0 answered 0 and 0 although the
\* history of another day holds a different carbonate price
C24_Witness ==
    /\ Returned("buildResponseMemory")
    /\ call.prices.carbonate.changeCNY = JSInt(0)
    /\ ValidBaseline(call.history, "carbonate")
    /\ HistPrice(call.history, "carbonate") # call.prices.carbonate.price
    /\ out.carbonate.change = JSInt(0)
    /\ out.carbonate.changePercent = JSInt(0)

-----------------------------------------------------------------------------
(* C25 .. C28: the handler *)

\* the last request was answered with a price response (any request but
\* OPTIONS and POST save-history); no save has happened since, so the stored
\* history is the one the response was computed from
ReadAnswered ==
    /\ call.op = "handler"
    /\ call.method \in {"GET", "POST"}
    /\ ~(call.method = "POST" /\ call.action = "save-history")
    /\ result.k = "response"

\* the body of the last price response
body == result.body

\* C25: a price response computed on the day of the stored history (a save
\* of that day lies behind it) has change null for every future, and
\* reports that day as historyDate
C25_SameDayFuturesNull ==
    (/\ ReadAnswered
     /\ ~IsNullish(history)
     /\ history.date = body.lastUpdated) =>
        /\ \A i \in DOMAIN body.futures : IsNull(body.futures[i].change)
        /\ body.historyDate = [k |-> "date", day |-> history.date]

\* C25 witness: a GET answered on the day of a save, two futures, the stored
\* history holding a nonzero price for each
C25_Witness ==
    /\ ReadAnswered
    /\ call.method = "GET"
    /\ ~IsNullish(history)
    /\ history.date = body.lastUpdated
    /\ Len(body.futures) = 2
    /\ \A i \in DOMAIN body.futures :
          /\ Truthy(LastHistoryPrice(history, body.futures[i].contract))
          /\ IsNull(body.futures[i].change)
    /\ body.historyDate.k = "date"

\* futures as CURRENT_PRICES lists them (api/prices.js:171-184): every
\* contract code once, every priceCNY a number other than 0
ListedOnceAndPriced(futures) ==
    /\ \A i, j \in DOMAIN futures :
          futures[i].contract = futures[j].contract => i = j
    /\ \A i \in DOMAIN futures :
          IsNumber(futures[i].priceCNY) /\ futures[i].priceCNY.n # 0

\* C26: a price response computed on a day later than that of the stored
\* history has change 0 for every future: CURRENT_PRICES, which lists every
\* contract once with a price, is compared with the copy of itself that the
\* save stored
C26_LaterDayFuturesZero ==
    (/\ ReadAnswered
     /\ ~IsNullish(history)
     /\ history.date < body.lastUpdated
     /\ ListedOnceAndPriced(prices.futures)) =>
        \A i \in DOMAIN body.futures : body.futures[i].change = JSInt(0)

\* C26 witness: a GET answered the day after the save, two futures with
\* change 0
C26_Witness ==
    /\ ReadAnswered
    /\ call.method = "GET"
    /\ ~IsNullish(history)
    /\ history.date < body.lastUpdated
    /\ Len(body.futures) = 2
    /\ ListedOnceAndPriced(prices.futures)
    /\ \A i \in DOMAIN body.futures : body.futures[i].change = JSInt(0)

IsSaveRequest(req) == req.method = "POST" /\ req.action = "save-history"

\* C27: the stored history is null before any request; a request other than
\* a POST with action=save-history leaves it as it was; an OPTIONS request
\* answers with no body and computes no price response
C27_OnlySaveWritesHistory ==
    [][/\ (call.op = "handler" /\ call.method = "none") => IsNull(history)
       /\ (call'.op = "handler" /\ call' # call /\ ~IsSaveRequest(call')) =>
             history' = history
       /\ (call'.op = "handler" /\ call'.method = "OPTIONS" /\ call' # call) =>
             /\ result' = Response(Undefined)
             /\ served' = served
       /\ (call.op = "handler" /\ history' # history) =>
             /\ IsSaveRequest(call')
             /\ history' = handlerSnapshot(prices, today)]_vars

\* C27: the case reached: after price responses on two days and an OPTIONS
\* request that carries action=save-history, the history is still null
C27_Witness ==
    /\ call.op = "handler"
    /\ call.method = "OPTIONS" /\ call.action = "save-history"
    /\ result = Response(Undefined)
    /\ IsNull(history)
    /\ today = 2
    /\ Cardinality(served) >= 2

\* a history that one save wrote as a whole: date and savedAt of one day,
\* carbonate, spodumene and futures the copies that save took
WrittenByOneSave(h) ==
    \E d \in Days : h = handlerSnapshot(prices, d)

\* C28: the stored history, and the history every price response was computed
\* from, is null or the complete history of one save, never a mixture of two
\* saves; the response is the one buildResponse gives for that history
C28_ReadsSeeWholeHistory ==
    call.op = "handler" =>
        /\ IsNull(history) \/ WrittenByOneSave(history)
        /\ \A e \in served :
              /\ IsNull(e.history) \/ (WrittenByOneSave(e.history)
                                         /\ e.history.date <= e.today)
              /\ LET r == buildResponseMemory(prices, e.history, e.today).value
                 IN  /\ e.carbonate.change = r.carbonate.change
                     /\ e.spodumene.change = r.spodumene.change
                     /\ e.futures = [i \in DOMAIN r.futures |-> r.futures[i].change]

\* C28: the case reached: reads before the first save, between the saves of
\* two days, and after the second save
C28_Witness ==
    /\ call.op = "handler"
    /\ \E e \in served : IsNull(e.history)
    /\ \E e \in served : ~IsNull(e.history) /\ e.history.date = 1 /\ e.today = 2
    /\ \E e \in served : ~IsNull(e.history) /\ e.history.date = 2

-----------------------------------------------------------------------------
(* C29 .. C30: the App component *)

DataFields == {"carbonate", "spodumene", "futures", "conversionRate", "lastUpdated"}

LastSettled == settled[Len(settled)]

\* C29: the promise of fetchPricesFromAPI is never rejected; when the request
\* failed or the status was not ok its value is the default record of that
\* time, which has carbonate, spodumene, futures, conversionRate and
\* lastUpdated; and once a call of loadPrices has completed, priceData is the
\* value of its promise and lastUpdated is the lastUpdated of priceData
C29_NeverRejects ==
    call.op = "App" =>
        IF settled = <<>>
        THEN priceData = defaultData /\ IsNull(lastUpdated)
        ELSE /\ completed.promise.k = "fulfilled"
             /\ FailedRequest(completed.outcome) =>
                   /\ completed.promise.value = getDefaultData(completed.at)
                   /\ DataFields \subseteq DOMAIN completed.promise.value
                   /\ \A f \in DataFields :
                         ~IsUndefined(completed.promise.value[f])
             /\ priceData = completed.promise.value
             /\ lastUpdated = priceData.lastUpdated

\* C29: the case reached: after a request that failed and one that did not,
\* a request whose status was not ok has completed, and the default record
\* of that time is shown
C29_Witness ==
    /\ call.op = "App"
    /\ Len(settled) = 3
    /\ settled[1].failed
    /\ ~settled[2].failed
    /\ completed.outcome = HttpResponse(FALSE, Undefined)
    /\ completed.at = 1
    /\ priceData = getDefaultData(1)
    /\ priceData # defaultData
    /\ lastUpdated = Instant(1)

\* the priceData shown are those the call of loadPrices that completed last
\* set: the default record of its time if its request failed, else the body
\* of its response
ShownIsLastCompleted ==
    settled # <<>> =>
        /\ priceData = completed.promise.value
        /\ LastSettled.failed = FailedRequest(completed.outcome)
        /\ LastSettled.failed => priceData = getDefaultData(completed.at)
        /\ ~LastSettled.failed /\ completed.outcome.json # NotJSON =>
              priceData = completed.outcome.json

\* C30: loading becomes false after the mount, refreshing becomes false after
\* each manual refresh, whatever the requests come to; and the priceData
\* shown is always that of the call of loadPrices that completed last.
\* (mounted never becomes false again, so that "always eventually mounted
\* implies not loading" is "mounted leads to not loading"; "always eventually
\* not refreshing" is "refreshing leads to not refreshing".)
C30_LastCompletedShown ==
    /\ [](call.op = "App" => ShownIsLastCompleted)
    /\ []<>(mounted => ~loading)
    /\ []<>(~refreshing)

\* C30: the case reached: a periodic load and a manual refresh overlapped,
\* the one started first completed last, one of the two failed and the
\* other did not, the data of the one that completed last are shown, and
\* loading and refreshing are false again
C30_Witness ==
    /\ call.op = "App"
    /\ Len(settled) = 3
    /\ LET a == settled[2]
           b == settled[3]
       IN  /\ b.id < a.id
           /\ {fetches[a.id], fetches[b.id]} = {"interval", "refresh"}
           /\ a.failed /\ ~b.failed
           /\ priceData = ApiBody(2)
    /\ ~loading
    /\ ~refreshing
    /\ timers = 0

=============================================================================
